---- MODULE Spec2Model ----
(***************************************************************************)
(* The sandbox tool layer of backend/agent/tools: the file tool            *)
(* (sb_files_tool.py), the shell tool (sb_shell_tool.py), the port tool    *)
(* (sb_expose_tool.py) and the deploy tool (sb_deploy_tool.py), acting on  *)
(* one remote sandbox (sandbox/sandbox.py).                                *)
(*                                                                         *)
(* A text is a sequence of one-character strings.  A path is a sequence of *)
(* segments: "/workspace/d/f" is <<"workspace", "d", "f">>.                *)
(***************************************************************************)
EXTENDS Integers, Sequences, FiniteSets, TLC

VARIABLES
    fs,         \* the sandbox filesystem: [files: path -> text, dirs: set of paths]
    sessions,   \* SandboxShellTool._sessions: session name -> session id
    uuids,      \* how many uuid4() values have been drawn
    token,      \* SandboxDeployTool.cloudflare_api_token
    result,     \* what the last tool operation gave its caller
    calls,      \* the remote calls the last tool operation issued, in order
    request,    \* the last tool operation and its arguments
    tasks       \* the create_file coroutines of the event loop, by task

vars == <<fs, sessions, uuids, token, result, calls, request, tasks>>

TAB == "\t"
NL == "\n"
CR == "\r"
SP == " "

\* The longest text a file of the model holds.
MaxLen == 9

\* str.expandtabs() with no argument: tab stops every 8 columns.
TabSize == 8

\* A value that is not a str (None): the type annotations are not enforced.
NotAString == <<"<None>">>

--------------------------------------------------------------------------
(* Python str operations used by str_replace *)

\* s[i-1:j]: a slice ends where the text ends
Slice(s, i, j) ==
    IF j < i \/ i > Len(s) THEN <<>>
    ELSE SubSeq(s, i, IF j > Len(s) THEN Len(s) ELSE j)

\* s.startswith(sub, i - 1)
MatchAt(s, sub, i) ==
    /\ i + Len(sub) - 1 <= Len(s)
    /\ \A k \in 1..Len(sub) : s[i + k - 1] = sub[k]

\* sub in s
Contains(s, sub) == \E i \in 1..(Len(s) + 1) : MatchAt(s, sub, i)

RECURSIVE CountFrom(_, _, _)
CountFrom(s, sub, i) ==
    IF i > Len(s) + 1 THEN 0
    ELSE IF MatchAt(s, sub, i)
         THEN 1 + CountFrom(s, sub, i + (IF Len(sub) = 0 THEN 1 ELSE Len(sub)))
         ELSE CountFrom(s, sub, i + 1)

\* s.count(sub): the non-overlapping occurrences; Len(s) + 1 for the empty sub
StrCount(s, sub) == CountFrom(s, sub, 1)

RECURSIVE ReplaceFrom(_, _, _, _)
ReplaceFrom(s, old, new, i) ==
    IF i > Len(s) + 1 THEN <<>>
    ELSE IF MatchAt(s, old, i)
         THEN IF Len(old) = 0
              THEN new \o Slice(s, i, i) \o ReplaceFrom(s, old, new, i + 1)
              ELSE new \o ReplaceFrom(s, old, new, i + Len(old))
         ELSE Slice(s, i, i) \o ReplaceFrom(s, old, new, i + 1)

\* s.replace(old, new): every non-overlapping occurrence, left to right
StrReplace(s, old, new) == ReplaceFrom(s, old, new, 1)

RECURSIVE Spaces(_)
Spaces(n) == IF n <= 0 THEN <<>> ELSE <<SP>> \o Spaces(n - 1)

RECURSIVE ExpandFrom(_, _, _)
ExpandFrom(s, i, col) ==
    IF i > Len(s) THEN <<>>
    ELSE IF s[i] = TAB
         THEN Spaces(TabSize - (col % TabSize)) \o ExpandFrom(s, i + 1, 0)
         ELSE IF s[i] = NL \/ s[i] = CR
              THEN <<s[i]>> \o ExpandFrom(s, i + 1, 0)
              ELSE <<s[i]>> \o ExpandFrom(s, i + 1, col + 1)

\* s.expandtabs()
ExpandTabs(s) == ExpandFrom(s, 1, 0)

RECURSIVE SplitFrom(_, _, _)
SplitFrom(s, i, cur) ==
    IF i > Len(s) THEN <<cur>>
    ELSE IF s[i] = NL
         THEN <<cur>> \o SplitFrom(s, i + 1, <<>>)
         ELSE SplitFrom(s, i + 1, Append(cur, s[i]))

\* s.split('\n')
SplitLines(s) == SplitFrom(s, 1, <<>>)

\* [i+1 for i, line in enumerate(content.split('\n')) if old_str in line]
MatchingLines(content, old_str) ==
    LET lines == SplitLines(content)
    IN  SelectSeq([i \in 1..Len(lines) |-> i],
                  LAMBDA i : Contains(lines[i], old_str))

--------------------------------------------------------------------------
(* Paths *)

workspace_path == <<"workspace">>

IsPrefix(p, q) == Len(p) <= Len(q) /\ SubSeq(q, 1, Len(p)) = p

Front(p) == IF Len(p) = 0 THEN <<>> ELSE SubSeq(p, 1, Len(p) - 1)

RECURSIVE Collapse(_, _, _)
Collapse(p, i, acc) ==
    IF i > Len(p) THEN acc
    ELSE IF p[i] = "." \/ p[i] = ""
         THEN Collapse(p, i + 1, acc)
         ELSE IF p[i] = ".."
              THEN Collapse(p, i + 1, Front(acc))
              ELSE Collapse(p, i + 1, Append(acc, p[i]))

\* a variant that hands the path on as it came
clean_path_verbatim(path) == path

\* utils.files_utils.clean_path: the path relative to the workspace root, its
\* redundant segments collapsed and its escaping ".." segments neutralized
clean_path(path) == Collapse(path, 1, <<>>)

\* clean_path raises on an argument that is not a str
clean_path_raises(path) == path = NotAString

\* f"{self.workspace_path}/{file_path}": an empty file_path leaves the
\* trailing "/" behind, kept here as an empty last segment
full_path_of(file_path) ==
    workspace_path \o (IF file_path = <<>> THEN <<"">> ELSE file_path)

--------------------------------------------------------------------------
(* The sandbox filesystem behind sandbox.fs *)

\* the location a path string names: empty segments do not count
Resolve(p) == SelectSeq(p, LAMBDA seg : seg # "")

IsFile(f, p) == Resolve(p) \in DOMAIN f.files

IsDir(f, p) == Resolve(p) \in f.dirs

\* the directories a location lies in, the root first
Ancestors(p) == {SubSeq(p, 1, k) : k \in 1..(Len(p) - 1)}

\* fs.list(path): the entries found at path: the file itself, or the children
\* of the directory; nothing where nothing is
FsList(f, p) ==
    IF IsFile(f, p) THEN {Resolve(p)}
    ELSE {q \in (DOMAIN f.files) \cup f.dirs : Len(q) > 0 /\ Front(q) = Resolve(p)}

\* fs.write_dir(path) goes through unless a file is in the way
FsWriteDirOk(f, p) ==
    \A q \in Ancestors(Resolve(p)) \cup {Resolve(p)} : q \notin DOMAIN f.files

FsWriteDir(f, p) ==
    [f EXCEPT !.dirs = @ \cup Ancestors(Resolve(p)) \cup {Resolve(p)}]

\* fs.write(path, data) goes through unless path is a directory or lies
\* under a file
FsWriteOk(f, p) ==
    /\ Resolve(p) \notin f.dirs
    /\ \A q \in Ancestors(Resolve(p)) : q \notin DOMAIN f.files

FsWrite(f, p, data) ==
    [files |-> [q \in (DOMAIN f.files) \cup {Resolve(p)} |->
                   IF q = Resolve(p) THEN data ELSE f.files[q]],
     dirs |-> f.dirs \cup Ancestors(Resolve(p))]

\* fs.read(path) goes through on a file
FsReadOk(f, p) == IsFile(f, p)

FsRead(f, p) == f.files[Resolve(p)]

\* fs.remove(path) goes through on a file or a directory, and takes
\* everything below it
FsRemoveOk(f, p) == IsFile(f, p) \/ IsDir(f, p)

FsRemove(f, p) ==
    [files |-> [q \in {x \in DOMAIN f.files : ~IsPrefix(Resolve(p), x)} |-> f.files[q]],
     dirs |-> {d \in f.dirs : ~IsPrefix(Resolve(p), d)}]

\* str(e) of the exception a remote call raises
ExcText(call) == <<call, "failed">>

\* one remote call as the sandbox saw it: a call that may have raised, and a call
\* that returned a value
Call(name, arg, raised) == [call |-> name, arg |-> arg, raised |-> raised, ret |-> <<>>]

Returned(name, arg, ret) == [call |-> name, arg |-> arg, raised |-> FALSE, ret |-> ret]

--------------------------------------------------------------------------
(* agentpress.tool: ToolResult, Tool.success_response, Tool.fail_response *)

Msg(text, detail) == [msg |-> text, detail |-> detail]

success_response(data) == [returned |-> TRUE, success |-> TRUE, output |-> data]

fail_response(msg) == [returned |-> TRUE, success |-> FALSE, output |-> msg]

\* no ToolResult: the exception left the operation
Propagated(text) == [returned |-> FALSE, success |-> FALSE, output |-> Msg("exception", text)]

\* what one tool operation did: the filesystem after it, the remote calls it
\* issued and what its caller got
Outcome(f, cs, r) == [fs |-> f, calls |-> cs, result |-> r]

--------------------------------------------------------------------------
(* SandboxFilesTool.  `raises` is the set of remote calls that raise during *)
(* the operation, whatever the filesystem holds (a transport error); a call *)
(* the filesystem cannot carry out raises as well.                          *)

\* a variant that takes a failed listing for a file that is there
_file_exists_on_error(f, path, raises) ==
    IF "list" \in raises
    THEN [ret |-> TRUE, calls |-> <<Call("list", path, TRUE)>>]
    ELSE [ret |-> Cardinality(FsList(f, path)) > 0,
          calls |-> <<Returned("list", path, FsList(f, path))>>]

\* _file_exists: len(fs.list(path)) > 0, and False when list raises
_file_exists(f, path, raises) ==
    IF "list" \in raises
    THEN [ret |-> FALSE, calls |-> <<Call("list", path, TRUE)>>]
    ELSE [ret |-> Cardinality(FsList(f, path)) > 0,
          calls |-> <<Returned("list", path, FsList(f, path))>>]

\* a variant that creates no parent directory
needs_parent_never(parent_dir) == FALSE

\* if parent_dir: the parent directory is created unless its path is empty
needs_parent(parent_dir) == parent_dir # <<>>

\* await self._file_exists(full_path): the coroutine awaited contains no
\* await itself (fs.list is called, not awaited), so it runs to its return
\* inside the caller's turn and the event loop gets no turn
_file_exists_suspends == FALSE

\* create_file from the return of the existence check, `ex`, on
create_file_checked(f, cleaned, file_contents, raises, ex) ==
    LET full_path == full_path_of(cleaned)
        parent_dir == Front(full_path)
        mkdir == needs_parent(parent_dir)
        mkdirRaises == mkdir /\ ("write_dir" \in raises \/ ~FsWriteDirOk(f, parent_dir))
        f1 == IF mkdir THEN FsWriteDir(f, parent_dir) ELSE f
        cs1 == IF mkdir THEN Append(ex.calls, Call("write_dir", parent_dir, mkdirRaises))
               ELSE ex.calls
        writeRaises == "write" \in raises \/ ~FsWriteOk(f1, full_path)
    IN  IF ex.ret
        THEN Outcome(f, ex.calls, fail_response(Msg("already exists", cleaned)))
        ELSE IF mkdirRaises
        THEN Outcome(f, cs1, fail_response(Msg("Error creating file", ExcText("write_dir"))))
        ELSE IF writeRaises
        THEN Outcome(f1, Append(cs1, Call("write", full_path, TRUE)),
                     fail_response(Msg("Error creating file", ExcText("write"))))
        ELSE Outcome(FsWrite(f1, full_path, file_contents),
                     Append(cs1, Call("write", full_path, FALSE)),
                     success_response(Msg("created successfully", cleaned)))

create_file(f, file_path, file_contents, raises) ==
    IF clean_path_raises(file_path)
    THEN Outcome(f, <<>>, Propagated(ExcText("clean_path")))
    ELSE create_file_checked(f, clean_path(file_path), file_contents, raises,
                             _file_exists(f, full_path_of(clean_path(file_path)), raises))

full_file_rewrite(f, file_path, file_contents, raises) ==
    IF clean_path_raises(file_path)
    THEN Outcome(f, <<>>, fail_response(Msg("Error rewriting file", ExcText("clean_path"))))
    ELSE
    LET cleaned == clean_path(file_path)
        full_path == full_path_of(cleaned)
        ex == _file_exists(f, full_path, raises)
        writeRaises == "write" \in raises \/ ~FsWriteOk(f, full_path)
    IN  IF ~ex.ret
        THEN Outcome(f, ex.calls, fail_response(Msg("does not exist", cleaned)))
        ELSE IF writeRaises
        THEN Outcome(f, Append(ex.calls, Call("write", full_path, TRUE)),
                     fail_response(Msg("Error rewriting file", ExcText("write"))))
        ELSE Outcome(FsWrite(f, full_path, file_contents),
                     Append(ex.calls, Call("write", full_path, FALSE)),
                     success_response(Msg("completely rewritten successfully", cleaned)))

str_replace(f, file_path, old_str, new_str, raises) ==
    IF clean_path_raises(file_path)
    THEN Outcome(f, <<>>, fail_response(Msg("Error replacing string", ExcText("clean_path"))))
    ELSE
    LET cleaned == clean_path(file_path)
        full_path == full_path_of(cleaned)
        ex == _file_exists(f, full_path, raises)
        readRaises == "read" \in raises \/ ~FsReadOk(f, full_path)
        content == FsRead(f, full_path)
        cs1 == Append(ex.calls, IF readRaises THEN Call("read", full_path, TRUE)
                                ELSE Returned("read", full_path, content))
        old == ExpandTabs(old_str)
        new == ExpandTabs(new_str)
        occurrences == StrCount(content, old)
        new_content == StrReplace(content, old, new)
        writeRaises == "write" \in raises \/ ~FsWriteOk(f, full_path)
    IN  IF ~ex.ret
        THEN Outcome(f, ex.calls, fail_response(Msg("does not exist", cleaned)))
        ELSE IF readRaises
        THEN Outcome(f, cs1, fail_response(Msg("Error replacing string", ExcText("read"))))
        ELSE IF occurrences = 0
        THEN Outcome(f, cs1, fail_response(Msg("not found in file", old)))
        ELSE IF occurrences > 1
        THEN Outcome(f, cs1, fail_response(Msg("Multiple occurrences found in lines",
                                               MatchingLines(content, old))))
        ELSE IF writeRaises
        THEN Outcome(f, Append(cs1, Call("write", full_path, TRUE)),
                     fail_response(Msg("Error replacing string", ExcText("write"))))
        ELSE Outcome(FsWrite(f, full_path, new_content),
                     Append(cs1, Call("write", full_path, FALSE)),
                     success_response(Msg("Replacement successful", <<>>)))

delete_file(f, file_path, raises) ==
    IF clean_path_raises(file_path)
    THEN Outcome(f, <<>>, fail_response(Msg("Error deleting file", ExcText("clean_path"))))
    ELSE
    LET cleaned == clean_path(file_path)
        full_path == full_path_of(cleaned)
        ex == _file_exists(f, full_path, raises)
        removeRaises == "remove" \in raises \/ ~FsRemoveOk(f, full_path)
    IN  IF ~ex.ret
        THEN Outcome(f, ex.calls, fail_response(Msg("does not exist", cleaned)))
        ELSE IF removeRaises
        THEN Outcome(f, Append(ex.calls, Call("remove", full_path, TRUE)),
                     fail_response(Msg("Error deleting file", ExcText("remove"))))
        ELSE Outcome(FsRemove(f, full_path),
                     Append(ex.calls, Call("remove", full_path, FALSE)),
                     success_response(Msg("deleted successfully", cleaned)))

--------------------------------------------------------------------------
(* SandboxShellTool.  `proc` is what the remote process does: whether start *)
(* and wait raise, and the exit code, stdout and stderr wait returns.       *)

Proc(startRaises, waitRaises, code, out, err) ==
    [start_raises |-> startRaises, wait_raises |-> waitRaises,
     exit_code |-> code, stdout |-> out, stderr |-> err]

\* a variant that draws a new identifier on every use of a name
_ensure_session_always_new(ss, n, session_name) ==
    [sessions |-> [k \in (DOMAIN ss) \cup {session_name} |->
                      IF k = session_name THEN n + 1 ELSE ss[k]],
     uuids |-> n + 1]

\* _ensure_session: a name not in the map gets a fresh uuid4
_ensure_session(ss, n, session_name) ==
    IF session_name \notin DOMAIN ss
    THEN [sessions |-> [k \in (DOMAIN ss) \cup {session_name} |->
                           IF k = session_name THEN n + 1 ELSE ss[k]],
          uuids |-> n + 1]
    ELSE [sessions |-> ss, uuids |-> n]

\* folder.strip('/'): the empty segments at both ends go
RECURSIVE StripSlashes(_)
StripSlashes(folder) ==
    IF folder = <<>> THEN <<>>
    ELSE IF Head(folder) = "" THEN StripSlashes(Tail(folder))
    ELSE IF folder[Len(folder)] = "" THEN StripSlashes(Front(folder))
    ELSE folder

\* cwd: the workspace, or f"{self.workspace_path}/{folder}" for a folder
\* that is not None and not ""
working_dir(folder) ==
    IF folder = <<>> THEN workspace_path
    ELSE workspace_path \o (IF StripSlashes(folder) = <<>> THEN <<"">>
                            ELSE StripSlashes(folder))

\* a variant that changes to the workspace root, whatever the folder
cd_command_to_root(cwd, command) == [cd |-> workspace_path, then |-> command]

\* f"cd {cwd} && {command}"
cd_command(cwd, command) == [cd |-> cwd, then |-> command]

\* a variant that starts the process in the session of the request
start_request_in_session(cmd, cwd, session_name) ==
    [command |-> cmd, cwd |-> cwd, session |-> session_name]

\* self.sandbox.process.start(command, cwd=cwd): the session of the request,
\* though in scope, is no argument of the call
start_request(cmd, cwd, session_name) == [command |-> cmd, cwd |-> cwd]

\* a variant that does not look at the exit code
command_succeeded_always(output) == TRUE

\* if output.exit_code == 0
command_succeeded(output) == output.exit_code = 0

execute_command(command, folder, session_name, timeout, proc) ==
    LET cwd == working_dir(folder)
        cmd == cd_command(cwd, command)
        start == Call("start", start_request(cmd, cwd, session_name), proc.start_raises)
        output == [exit_code |-> proc.exit_code, stdout |-> proc.stdout,
                   stderr |-> proc.stderr]
        wait == IF proc.wait_raises THEN Call("wait", timeout, TRUE)
                ELSE Returned("wait", timeout, output)
    IN  IF proc.start_raises
        THEN [calls |-> <<start>>,
              result |-> fail_response(Msg("Error executing command", ExcText("start")))]
        ELSE IF proc.wait_raises
        THEN [calls |-> <<start, wait>>,
              result |-> fail_response(Msg("Error executing command", ExcText("wait")))]
        ELSE IF command_succeeded(output)
        THEN [calls |-> <<start, wait>>,
              result |-> success_response(
                  Msg("output", [output |-> proc.stdout, exit_code |-> proc.exit_code,
                                 cwd |-> cwd]))]
        ELSE [calls |-> <<start, wait>>,
              result |-> fail_response(
                  Msg("Command failed with exit code",
                      [exit_code |-> proc.exit_code,
                       appended |-> IF proc.stderr # <<>> THEN <<":", proc.stderr>>
                                    ELSE <<>>]))]

--------------------------------------------------------------------------
(* SandboxExposeTool.  A port argument is an int, a float (in tenths), a    *)
(* str or None.                                                             *)

IntArg(v) == [type |-> "int", v |-> v, text |-> <<>>]

FloatArg(tenths) == [type |-> "float", v |-> tenths, text |-> <<>>]

StrArg(text) == [type |-> "str", v |-> 0, text |-> text]

NoneArg == [type |-> "NoneType", v |-> 0, text |-> <<>>]

Digits == <<"0", "1", "2", "3", "4", "5", "6", "7", "8", "9">>

IsDigit(c) == \E d \in 1..Len(Digits) : Digits[d] = c

DigitValue(c) == (CHOOSE d \in 1..Len(Digits) : Digits[d] = c) - 1

\* the number a text of decimal digits writes
RECURSIVE DecimalValue(_)
DecimalValue(text) ==
    IF text = <<>> THEN 0
    ELSE DecimalValue(Front(text)) * Len(Digits) + DigitValue(text[Len(text)])

\* int(text) accepts an optional sign before one digit or more
IsIntLiteral(text) ==
    LET unsigned == IF text # <<>> /\ Head(text) \in {"-", "+"} THEN Tail(text) ELSE text
    IN  unsigned # <<>> /\ \A i \in 1..Len(unsigned) : IsDigit(unsigned[i])

IntLiteralValue(text) ==
    IF Head(text) = "-" THEN 0 - DecimalValue(Tail(text))
    ELSE IF Head(text) = "+" THEN DecimalValue(Tail(text))
    ELSE DecimalValue(text)

\* int(port): "ok" with the value, or the class of the exception raised
PyInt(port) ==
    IF port.type = "int" THEN [raised |-> "", v |-> port.v]
    ELSE IF port.type = "float"
    THEN [raised |-> "",
          v |-> IF port.v >= 0 THEN port.v \div 10 ELSE 0 - ((0 - port.v) \div 10)]
    ELSE IF port.type = "str"
    THEN IF IsIntLiteral(port.text)
         THEN [raised |-> "", v |-> IntLiteralValue(port.text)]
         ELSE [raised |-> "ValueError", v |-> 0]
    ELSE [raised |-> "TypeError", v |-> 0]

\* `url` is what session.expose_port returns; `raises` says it raises
expose_port(port, url, raises) ==
    LET conv == PyInt(port)
        p == conv.v
    IN  IF conv.raised = "ValueError"
        THEN [calls |-> <<>>,
              result |-> fail_response(Msg("Invalid port number: must be a valid integer", port))]
        ELSE IF conv.raised # ""
        THEN [calls |-> <<>>,
              result |-> fail_response(Msg("Error exposing port", conv.raised))]
        ELSE IF ~(1 <= p /\ p <= 65535)
        THEN [calls |-> <<>>,
              result |-> fail_response(Msg("Invalid port number: must be between 1 and 65535", p))]
        ELSE IF raises
        THEN [calls |-> <<Call("expose_port", p, TRUE)>>,
              result |-> fail_response(Msg("Failed to expose port",
                                           [port |-> p, text |-> ExcText("expose_port")]))]
        ELSE [calls |-> <<Returned("expose_port", p, url)>>,
              result |-> success_response(Msg("Successfully exposed port",
                                              [url |-> url, port |-> p]))]

--------------------------------------------------------------------------
(* SandboxDeployTool *)

sandbox_id == "sbx"

\* the shell line deploy runs: deploy || (project create && deploy)
deploy_cmd(tok, full_path, project_name) ==
    [token |-> tok, deploy |-> full_path, project_name |-> project_name]

\* if not files
directory_missing(files) == files = {}

\* a variant that deploys without a token
token_missing_never(tok) == FALSE

\* if not self.cloudflare_api_token
token_missing(tok) == tok = ""

\* a variant with the test inverted
has_output_inverted(response) == response = <<>>

\* if response
has_output(response) == response # <<>>

deploy(f, tok, name, directory_path, listRaises, proc) ==
    IF clean_path_raises(directory_path)
    THEN [calls |-> <<>>,
          result |-> fail_response(Msg("Error deploying website", ExcText("clean_path")))]
    ELSE
    LET cleaned == clean_path(directory_path)
        full_path == full_path_of(cleaned)
        files == FsList(f, full_path)
        list == IF listRaises THEN Call("list", full_path, TRUE)
                ELSE Returned("list", full_path, files)
        project_name == <<sandbox_id, name>>
        start == Call("start", deploy_cmd(tok, full_path, project_name), proc.start_raises)
        output == [exit_code |-> proc.exit_code, stdout |-> proc.stdout,
                   stderr |-> proc.stderr]
        wait == IF proc.wait_raises THEN Call("wait", <<>>, TRUE)
                ELSE Returned("wait", <<>>, output)
        response == output.stdout
    IN  IF listRaises
        THEN [calls |-> <<list>>,
              result |-> fail_response(Msg("does not exist", [path |-> cleaned,
                                                              text |-> ExcText("list")]))]
        ELSE IF directory_missing(files)
        THEN [calls |-> <<list>>,
              result |-> fail_response(Msg("is empty or does not exist", cleaned))]
        ELSE IF token_missing(tok)
        THEN [calls |-> <<list>>,
              result |-> fail_response(Msg("CLOUDFLARE_API_TOKEN environment variable not set",
                                           <<>>))]
        ELSE IF proc.start_raises
        THEN [calls |-> <<list, start>>,
              result |-> fail_response(Msg("Error during deployment", ExcText("start")))]
        ELSE IF proc.wait_raises
        THEN [calls |-> <<list, start, wait>>,
              result |-> fail_response(Msg("Error during deployment", ExcText("wait")))]
        ELSE IF has_output(response)
        THEN [calls |-> <<list, start, wait>>,
              result |-> success_response(Msg("Website deployed successfully", response))]
        ELSE [calls |-> <<list, start, wait>>,
              result |-> fail_response(Msg("Deployment failed: No output received", <<>>))]

--------------------------------------------------------------------------
(* The inputs the operations are tried on *)

\* file_path, directory_path: "d/../f" cleans to "f", "../f" points out of
\* the workspace; NotAString is no str
UserPaths ==
    {<<"f">>, <<"d">>, <<"d", "f">>, <<"d", "..", "f">>, <<"..", "f">>, NotAString}

\* file_contents
Contents == {<<>>, <<"a">>, <<"a", "a">>}

\* old_str and new_str
OldStrs == {<<"a">>}

NewStrs == {<<>>, <<"b">>}

\* the texts str_replace is tried on in depth: several lines, repeated
\* text, tabs
EditPaths == {<<"f">>}

EditContents ==
    {<<>>, <<"a">>, <<"a", "a">>, <<"a", NL, "a">>, <<NL, NL>>, <<"a", TAB>>,
     <<"a", NL, "b">>}

EditOldStrs == {<<>>, <<"a">>, <<NL>>, <<TAB>>, <<"a", NL>>}

EditNewStrs == {<<>>, <<"b">>, <<"a", "a">>, <<TAB>>}

\* execute_command: command, folder ("" for None, "/d/", ".."), session_name,
\* timeout
Commands == {"echo hi", "exit 1"}

Folders == {<<>>, <<"d">>, <<"", "d", "">>, <<"..">>}

SessionNames == {"default", "build"}

DefaultTimeout == 60

Timeouts == {DefaultTimeout, 5}

\* no more uuid4 values are drawn than this
MaxUuids == 3

\* what the remote process may do
ProcOutcomes ==
    {Proc(TRUE, FALSE, 0, <<>>, <<>>), Proc(FALSE, TRUE, 0, <<>>, <<>>)}
    \cup {Proc(FALSE, FALSE, code, out, err) :
             code \in {0, 1}, out \in {<<>>, <<"h", "i">>}, err \in {<<>>, <<"e">>}}

\* expose_port: the port as the caller passes it
PortArgs ==
    {IntArg(v) : v \in {0 - 1, 0, 1, 8000, 65535, 65536}}
    \cup {FloatArg(t) : t \in {5, 37, 80000, 655359}}
    \cup {StrArg(t) : t \in {<<"8", "0">>, <<"0">>, <<"a">>, <<>>, <<"-", "1">>}}
    \cup {NoneArg}

\* what the sandbox's port forwarding may answer
Urls == {"https://8000-sbx.host", "https://sbx.host"}

\* deploy: name
SiteNames == {"site"}

\* the filesystems the publishing tools are tried on
FoundFilesystems ==
    {[files |-> <<>>, dirs |-> {workspace_path}],
     [files |-> <<>>, dirs |-> {workspace_path, workspace_path \o <<"d">>}],
     [files |-> [q \in {workspace_path \o <<"d", "f">>} |-> <<"a">>],
      dirs |-> {workspace_path, workspace_path \o <<"d">>}],
     [files |-> [q \in {workspace_path \o <<"f">>} |-> <<"a">>],
      dirs |-> {workspace_path}]}

--------------------------------------------------------------------------
(* The state machine: one action per tool operation *)

Request(op, args) == [op |-> op, args |-> args]

Apply(req, out) ==
    /\ \A q \in DOMAIN out.fs.files : Len(out.fs.files[q]) <= MaxLen
    /\ fs' = out.fs
    /\ calls' = out.calls
    /\ result' = out.result
    /\ request' = req
    /\ UNCHANGED <<sessions, uuids, token, tasks>>

CreateFile ==
    \E p \in UserPaths, c \in Contents, raises \in SUBSET {"list", "write_dir", "write"} :
        Apply(Request("create_file", <<p, c>>), create_file(fs, p, c, raises))

FullFileRewrite ==
    \E p \in UserPaths, c \in Contents, raises \in SUBSET {"list", "write"} :
        Apply(Request("full_file_rewrite", <<p, c>>), full_file_rewrite(fs, p, c, raises))

StrReplaceOn(paths, olds, news) ==
    \E p \in paths, o \in olds, n \in news, raises \in SUBSET {"list", "read", "write"} :
        Apply(Request("str_replace", <<p, o, n>>), str_replace(fs, p, o, n, raises))

StrReplaceOp == StrReplaceOn(UserPaths, OldStrs, NewStrs)

DeleteFile ==
    \E p \in UserPaths, raises \in SUBSET {"list", "remove"} :
        Apply(Request("delete_file", <<p>>), delete_file(fs, p, raises))

ExecuteCommand ==
    \E command \in Commands, folder \in Folders, session_name \in SessionNames,
       timeout \in Timeouts, proc \in ProcOutcomes :
        LET ens == _ensure_session(sessions, uuids, session_name)
            out == execute_command(command, folder, session_name, timeout, proc)
        IN  /\ ens.uuids <= MaxUuids
            /\ sessions' = ens.sessions
            /\ uuids' = ens.uuids
            /\ calls' = out.calls
            /\ result' = out.result
            /\ request' = Request("execute_command",
                                  <<command, folder, session_name, timeout>>)
            /\ UNCHANGED <<fs, token, tasks>>

\* cleanup: self._sessions.clear()
Cleanup ==
    /\ sessions' = <<>>
    /\ calls' = <<>>
    /\ result' = success_response(Msg("None", <<>>))
    /\ request' = Request("cleanup", <<>>)
    /\ UNCHANGED <<fs, uuids, token, tasks>>

ExposePort ==
    \E port \in PortArgs, url \in Urls, raises \in BOOLEAN :
        LET out == expose_port(port, url, raises)
        IN  /\ calls' = out.calls
            /\ result' = out.result
            /\ request' = Request("expose_port", <<port>>)
            /\ UNCHANGED <<fs, sessions, uuids, token, tasks>>

Deploy ==
    \E name \in SiteNames, directory_path \in UserPaths, listRaises \in BOOLEAN,
       proc \in ProcOutcomes :
        LET out == deploy(fs, token, name, directory_path, listRaises, proc)
        IN  /\ calls' = out.calls
            /\ result' = out.result
            /\ request' = Request("deploy", <<name, directory_path>>)
            /\ UNCHANGED <<fs, sessions, uuids, token, tasks>>

\* the tools as constructed: no session yet, nothing called
Constructed ==
    /\ sessions = <<>>
    /\ uuids = 0
    /\ result = success_response(Msg("constructed", <<>>))
    /\ calls = <<>>
    /\ request = Request("__init__", <<>>)

\* the file tool, on a sandbox whose workspace is empty
Init ==
    /\ fs = [files |-> <<>>, dirs |-> {workspace_path}]
    /\ token = ""
    /\ tasks = <<>>
    /\ Constructed

Next ==
    \/ CreateFile
    \/ FullFileRewrite
    \/ StrReplaceOp
    \/ DeleteFile

Spec == Init /\ [][Next]_vars

\* str_replace in depth: the workspace holds one file, of any of the texts
InitEdit ==
    /\ \E c \in EditContents :
           fs = [files |-> [q \in {workspace_path \o <<"f">>} |-> c],
                 dirs |-> {workspace_path}]
    /\ token = ""
    /\ tasks = <<>>
    /\ Constructed

StrReplaceEdit == StrReplaceOn(EditPaths, EditOldStrs, EditNewStrs)

NextEdit == StrReplaceEdit

SpecEdit == InitEdit /\ [][NextEdit]_vars

\* the shell tool
NextShell ==
    \/ ExecuteCommand
    \/ Cleanup

SpecShell == Init /\ [][NextShell]_vars

\* the port tool and the deploy tool, on a sandbox as it is found and with
\* CLOUDFLARE_API_TOKEN set or not
InitPublish ==
    /\ fs \in FoundFilesystems
    /\ token \in {"", "tok"}
    /\ tasks = <<>>
    /\ Constructed

NextPublish ==
    \/ ExposePort
    \/ Deploy

SpecPublish == InitPublish /\ [][NextPublish]_vars

\* two create_file coroutines as tasks of one event loop
TaskIds == {1, 2}

TaskPaths == {<<"f">>, <<"d", "f">>}

\* a task that has not run yet has checked nothing and returned nothing
NotChecked == [ret |-> FALSE, calls |-> <<>>]

NotReturned == [returned |-> FALSE, success |-> FALSE, output |-> Msg("pending", <<>>)]

\* both tasks are handed the same path, in an empty workspace
InitTasks ==
    /\ fs = [files |-> <<>>, dirs |-> {workspace_path}]
    /\ token = ""
    /\ \E file_path \in TaskPaths :
           \E c \in [TaskIds -> Contents] :
               tasks = [t \in TaskIds |->
                           [pc |-> "ready", file_path |-> file_path,
                            file_contents |-> c[t], ex |-> NotChecked,
                            calls |-> <<>>, result |-> NotReturned]]
    /\ Constructed

\* the event loop gives task t a turn: the coroutine runs on from where it
\* stood to its next suspension point or to its return
RunTask(t) ==
    \E raises \in SUBSET {"list", "write_dir", "write"} :
        LET task == tasks[t]
            cleaned == clean_path(task.file_path)
            ex == IF task.pc = "ready"
                  THEN _file_exists(fs, full_path_of(cleaned), raises)
                  ELSE task.ex
            out == create_file_checked(fs, cleaned, task.file_contents, raises, ex)
        IN  /\ task.pc # "done"
            /\ IF task.pc = "ready" /\ _file_exists_suspends
               THEN /\ tasks' = [tasks EXCEPT ![t] = [task EXCEPT !.pc = "checked",
                                                                  !.ex = ex]]
                    /\ fs' = fs
               ELSE /\ tasks' = [tasks EXCEPT ![t] = [task EXCEPT !.pc = "done",
                                                                  !.ex = ex,
                                                                  !.calls = out.calls,
                                                                  !.result = out.result]]
                    /\ fs' = out.fs
            /\ UNCHANGED <<sessions, uuids, token, result, calls, request>>

NextTasks == \E t \in TaskIds : RunTask(t)

SpecTasks == InitTasks /\ [][NextTasks]_vars

--------------------------------------------------------------------------
(* Properties *)

FileOps == {"create_file", "full_file_rewrite", "str_replace", "delete_file"}

\* the path argument of a request is a str
HasPath(req) == ~clean_path_raises(req.args[1])

\* the full path a file request names
TargetOf(req) == full_path_of(clean_path(req.args[1]))

Issued(cs, names) == {i \in 1..Len(cs) : cs[i].call \in names}

RaisedIn(cs) == {i \in 1..Len(cs) : cs[i].raised}

IsFailure(r, text) == r.returned /\ ~r.success /\ r.output.msg = text

\* C1: a create_file right after a successful create_file of the same path
\* fails with "already exists", issues no write_dir and no write, and leaves
\* the filesystem, hence the file's first content, as it was.
C1_SecondCreateFails ==
    [][(/\ request.op = "create_file" /\ result.returned /\ result.success
        /\ request'.op = "create_file"
        /\ request'.args[1] = request.args[1])
       => (/\ IsFailure(result', "already exists")
           /\ Issued(calls', {"write_dir", "write"}) = {}
           /\ fs' = fs
           /\ FsRead(fs', TargetOf(request)) = request.args[2])]_vars

\* nothing is at the location: neither a file nor a directory
Nonexistent(f, p) == ~IsFile(f, p) /\ ~IsDir(f, p)

\* C2: on a path where nothing exists, full_file_rewrite, str_replace and
\* delete_file fail with "does not exist", issue no read, write or remove
\* call, and leave the filesystem as it was.
C2_MissingFileRejected ==
    [][(/\ request'.op \in {"full_file_rewrite", "str_replace", "delete_file"}
        /\ HasPath(request')
        /\ Nonexistent(fs, TargetOf(request')))
       => (/\ IsFailure(result', "does not exist")
           /\ Issued(calls', {"read", "write", "write_dir", "remove"}) = {}
           /\ fs' = fs)]_vars

\* a delete_file of a path where nothing is has been answered, after the
\* listing of the path raised
C2_Witness ==
    /\ request.op = "delete_file"
    /\ HasPath(request)
    /\ Nonexistent(fs, TargetOf(request))
    /\ Len(calls) = 1 /\ calls[1].call = "list" /\ calls[1].raised
    /\ IsFailure(result, "does not exist")

\* where old begins in content
Occurrences(content, old) == {i \in 1..(Len(content) + 1) : MatchAt(content, old, i)}

\* content with the occurrence of old at i replaced by new
SubstituteAt(content, old, new, i) ==
    Slice(content, 1, i - 1) \o new \o Slice(content, i + Len(old), Len(content))

\* the 1-based number of the line position i of content lies in
LineOf(content, i) == 1 + Cardinality({k \in 1..(i - 1) : content[k] = NL})

\* C3: str_replace of an old_str that occurs exactly once in an existing file
\* returns success, and the file then holds its content with that occurrence
\* replaced by new_str and every other character as it was (no remote call
\* having raised).
C3_SingleOccurrenceReplaced ==
    [][(/\ request'.op = "str_replace"
        /\ HasPath(request')
        /\ IsFile(fs, TargetOf(request'))
        /\ RaisedIn(calls') = {}
        /\ Cardinality(Occurrences(FsRead(fs, TargetOf(request')), request'.args[2])) = 1)
       => LET content == FsRead(fs, TargetOf(request'))
              old == request'.args[2]
              new == request'.args[3]
              at == CHOOSE i \in Occurrences(content, old) : TRUE
          IN  /\ result'.returned /\ result'.success
              /\ fs' = FsWrite(fs, TargetOf(request'), SubstituteAt(content, old, new, at))]_vars

\* old occurs at two places that do not overlap
OccursTwice(content, old) ==
    \E i, j \in Occurrences(content, old) :
        i < j /\ j >= i + Len(old)

\* C4: str_replace of an old_str that occurs more than once in an existing
\* file fails, its message lists the line number of every occurrence, and it
\* writes nothing (no remote call having raised).
C4_MultipleOccurrencesListed ==
    [][(/\ request'.op = "str_replace"
        /\ HasPath(request')
        /\ IsFile(fs, TargetOf(request'))
        /\ RaisedIn(calls') = {}
        /\ OccursTwice(FsRead(fs, TargetOf(request')), request'.args[2]))
       => LET content == FsRead(fs, TargetOf(request'))
              old == request'.args[2]
              lines == result'.output.detail
          IN  /\ IsFailure(result', "Multiple occurrences found in lines")
              /\ \A i \in Occurrences(content, old) :
                     \E k \in 1..Len(lines) : lines[k] = LineOf(content, i)
              /\ Issued(calls', {"write"}) = {}
              /\ fs' = fs]_vars

\* C5: every tool operation gives its caller a ToolResult; no exception
\* leaves it.
C5_AlwaysToolResult == result.returned

ErrorTexts ==
    {"Error creating file", "Error rewriting file", "Error replacing string",
     "Error deleting file"}

First(S) == CHOOSE i \in S : \A j \in S : i <= j

\* C6: when a remote filesystem call of a file operation raises, the
\* operation returns a failure that carries the exception's text, and issues
\* no mutating call after it.
C6_RemoteErrorReported ==
    [][(request'.op \in FileOps /\ RaisedIn(calls') # {})
       => LET k == First(RaisedIn(calls'))
          IN  /\ result'.returned /\ ~result'.success
              /\ result'.output.msg \in ErrorTexts
              /\ result'.output.detail = ExcText(calls'[k].call)
              /\ \A i \in Issued(calls', {"write_dir", "write", "remove"}) : i <= k]_vars

\* C7: execute_command starts one process and maps what it did to the
\* result: exit code 0 to success with stdout, the exit code and the working
\* directory; another exit code to a failure with the code, and stderr
\* appended when there is any; an exception of start or wait to a failure
\* with its text.
C7_ExitCodeMapped ==
    request.op = "execute_command" =>
        /\ Len(calls) >= 1 /\ calls[1].call = "start"
        /\ calls[1].raised =>
               /\ IsFailure(result, "Error executing command")
               /\ result.output.detail = ExcText("start")
        /\ ~calls[1].raised =>
               /\ Len(calls) = 2 /\ calls[2].call = "wait"
               /\ calls[2].raised =>
                      /\ IsFailure(result, "Error executing command")
                      /\ result.output.detail = ExcText("wait")
               /\ (~calls[2].raised /\ calls[2].ret.exit_code = 0) =>
                      /\ result.returned /\ result.success
                      /\ result.output.detail =
                             [output |-> calls[2].ret.stdout, exit_code |-> 0,
                              cwd |-> calls[1].arg.cwd]
               /\ (~calls[2].raised /\ calls[2].ret.exit_code # 0) =>
                      /\ IsFailure(result, "Command failed with exit code")
                      /\ result.output.detail.exit_code = calls[2].ret.exit_code
                      /\ result.output.detail.appended =
                             IF calls[2].ret.stderr = <<>> THEN <<>>
                             ELSE <<":", calls[2].ret.stderr>>

\* a command has ended with exit code 1 and something on stderr, and the
\* caller has the failure
C7_Witness ==
    /\ request.op = "execute_command"
    /\ Len(calls) = 2 /\ ~calls[2].raised
    /\ calls[2].ret.exit_code = 1 /\ calls[2].ret.stderr # <<>>
    /\ IsFailure(result, "Command failed with exit code")

\* the port argument is a whole number: an int, a float without a
\* fraction, or the text of an int
IsIntegerValue(port) ==
    \/ port.type = "int"
    \/ port.type = "float" /\ port.v % 10 = 0
    \/ port.type = "str" /\ IsIntLiteral(port.text)

IntegerValueOf(port) ==
    IF port.type = "int" THEN port.v
    ELSE IF port.type = "float" THEN port.v \div 10
    ELSE IntLiteralValue(port.text)

\* C8: expose_port fails without a forwarding request when the port is no
\* integer value or lies outside 1..65535; otherwise it makes one forwarding
\* request for the port and returns the URL and the port, or a failure with
\* the forwarding error.
C8_PortValidated ==
    request.op = "expose_port" =>
        LET port == request.args[1]
        IN  IF ~IsIntegerValue(port)
            THEN result.returned /\ ~result.success /\ calls = <<>>
            ELSE IF ~(IntegerValueOf(port) \in 1..65535)
            THEN result.returned /\ ~result.success /\ calls = <<>>
            ELSE /\ Len(calls) = 1 /\ calls[1].call = "expose_port"
                 /\ calls[1].arg = IntegerValueOf(port)
                 /\ calls[1].raised =>
                        /\ IsFailure(result, "Failed to expose port")
                        /\ result.output.detail.text = ExcText("expose_port")
                 /\ ~calls[1].raised =>
                        /\ result.returned /\ result.success
                        /\ result.output.detail =
                               [url |-> calls[1].ret, port |-> IntegerValueOf(port)]

\* C9: deploy starts the CLI process only after a listing that returned
\* entries and with the token set; with a directory that is missing or
\* empty, or without the token, it fails and starts no process.
C9_DeployGuarded ==
    request.op = "deploy" =>
        LET started == Issued(calls, {"start"})
        IN  /\ started # {} =>
                   /\ calls[1].call = "list" /\ ~calls[1].raised /\ calls[1].ret # {}
                   /\ token # ""
                   /\ \A i \in started : i > 1
            /\ (\/ token = ""
                \/ HasPath([args |-> Tail(request.args)])
                   /\ FsList(fs, TargetOf([args |-> Tail(request.args)])) = {})
                   => /\ result.returned /\ ~result.success
                      /\ started = {}

\* a deploy has started the CLI process
C9_Witness ==
    /\ request.op = "deploy"
    /\ Issued(calls, {"start"}) # {}
    /\ token # ""

RECURSIVE Walk(_, _, _)
Walk(p, i, at) ==
    IF i > Len(p) THEN at
    ELSE IF p[i] \in {"", "."} THEN Walk(p, i + 1, at)
    ELSE IF p[i] = ".." THEN Walk(p, i + 1, IF at = <<>> THEN <<>> ELSE Front(at))
    ELSE Walk(p, i + 1, Append(at, p[i]))

\* the path is the workspace root or lies below it
InWorkspace(p) == IsPrefix(workspace_path, Walk(p, 1, <<>>))

\* the paths a call hands to the sandbox
PathsOf(c) ==
    IF c.call \in {"list", "read", "write_dir", "write", "remove"} THEN {c.arg}
    ELSE IF c.call = "start" /\ "deploy" \in DOMAIN c.arg THEN {c.arg.deploy}
    ELSE IF c.call = "start" THEN {c.arg.cwd, c.arg.command.cd}
    ELSE {}

\* C11: every path a file operation or deploy hands to the sandbox
\* filesystem lies in the workspace, whatever ".." the user's path holds.
C11_PathsStayInWorkspace ==
    request.op \in FileOps \cup {"deploy"} =>
        \A i \in 1..Len(calls) : \A p \in PathsOf(calls[i]) : InWorkspace(p)

\* a create_file of "../f" has written its file, in the workspace
C11_Witness ==
    /\ request.op = "create_file"
    /\ request.args[1] = <<"..", "f">>
    /\ result.returned /\ result.success
    /\ Issued(calls, {"write"}) # {}
    /\ \A i \in 1..Len(calls) : InWorkspace(calls[i].arg)

\* C12: no remote call of a file operation or of execute_command is given a
\* file path or a working directory outside the workspace: file_path and
\* folder are normalized before the call.
C12_NormalizedBeforeRemoteCall ==
    request.op \in FileOps \cup {"execute_command"} =>
        \A i \in 1..Len(calls) : \A p \in PathsOf(calls[i]) : InWorkspace(p)

\* C13: an execute_command, succeeding or not, adds its session name to the
\* map, with an identifier no other name holds if the name is new, and keeps
\* every identifier the map held; cleanup leaves the map empty. So a name is
\* in the map exactly when it was used since the last cleanup, under the
\* identifier of its first use.
C13_SessionMap ==
    [][/\ request'.op = "execute_command" =>
           LET name == request'.args[3]
           IN  /\ DOMAIN sessions' = (DOMAIN sessions) \cup {name}
               /\ \A k \in DOMAIN sessions : sessions'[k] = sessions[k]
               /\ name \notin DOMAIN sessions =>
                      \A k \in DOMAIN sessions : sessions'[name] # sessions[k]
       /\ request'.op = "cleanup" => DOMAIN sessions' = {}
       /\ request'.op \notin {"execute_command", "cleanup"} => sessions' = sessions
      ]_vars

\* a failed command has put its name back into a map that a cleanup had
\* emptied after two names were in use
C13_Witness ==
    /\ request.op = "execute_command"
    /\ result.returned /\ ~result.success
    /\ DOMAIN sessions = {request.args[3]}
    /\ uuids = 3
    /\ sessions[request.args[3]] = 3

\* C14: an execute_command issues exactly one start, first, whose command is
\* "cd <dir> && <command>" for the directory it starts the process in, then at
\* most one wait, given the timeout of the request; and no operation issues
\* the same remote call a second time, after a failure or otherwise.
C14_OneStartOneWaitNoRetry ==
    /\ request.op = "execute_command" =>
           /\ Issued(calls, {"start"}) = {1}
           /\ calls[1].arg.command = [cd |-> calls[1].arg.cwd, then |-> request.args[1]]
           /\ Issued(calls, {"wait"}) \subseteq {2}
           /\ Len(calls) <= 2
           /\ \A i \in Issued(calls, {"wait"}) : calls[i].arg = request.args[4]
    /\ \A i, j \in 1..Len(calls) : i # j => calls[i].call # calls[j].call

\* a command was started in a folder with "cd <dir> && <command>" and waited
\* for with the timeout given, and the wait raised
C14_Witness ==
    /\ request.op = "execute_command"
    /\ request.args[2] = <<"d">>
    /\ request.args[4] = 5
    /\ Len(calls) = 2
    /\ calls[1].arg.command = [cd |-> <<"workspace", "d">>, then |-> request.args[1]]
    /\ calls[2].call = "wait" /\ calls[2].arg = 5 /\ calls[2].raised

\* the remote calls of two operations raised and returned alike
SameOutcome(cs, ds) ==
    /\ Len(cs) = Len(ds)
    /\ \A i \in 1..Len(cs) : cs[i].raised = ds[i].raised
    /\ \A i \in 1..Len(cs) : cs[i].ret = ds[i].ret

C16_CreateAndRewriteStore ==
    [][/\ (/\ request'.op = "create_file"
            /\ HasPath(request')
            /\ Nonexistent(fs, TargetOf(request'))
            /\ RaisedIn(calls') = {})
           => /\ result'.returned /\ result'.success
              /\ \E i \in Issued(calls', {"write_dir"}) :
                     \E j \in Issued(calls', {"write"}) : i < j
              /\ IsFile(fs', TargetOf(request'))
              /\ FsRead(fs', TargetOf(request')) = request'.args[2]
       /\ (/\ request'.op = "full_file_rewrite"
            /\ HasPath(request')
            /\ IsFile(fs, TargetOf(request'))
            /\ RaisedIn(calls') = {})
           => /\ result'.returned /\ result'.success
              /\ IsFile(fs', TargetOf(request'))
              /\ FsRead(fs', TargetOf(request')) = request'.args[2]
      ]_vars

\* a full_file_rewrite has put new contents into a file in a directory that
\* a create_file had made
C16_Witness ==
    /\ request.op = "full_file_rewrite"
    /\ request.args[1] = <<"d", "f">>
    /\ result.returned /\ result.success
    /\ RaisedIn(calls) = {}
    /\ IsDir(fs, <<"workspace", "d">>)
    /\ FsRead(fs, TargetOf(request)) = <<"a", "a">>
    /\ request.args[2] = <<"a", "a">>

\* the existence check of no task met a raising fs.list
ListReturned ==
    \A t \in DOMAIN tasks :
        \A i \in 1..Len(tasks[t].ex.calls) : ~tasks[t].ex.calls[i].raised

\* with a list that returns, the two tasks never both create the file: no
\* task gets a turn between another's check and write
AtMostOneCreatesWhenListReturns ==
    ListReturned =>
        Cardinality({t \in DOMAIN tasks :
                        tasks[t].result.returned /\ tasks[t].result.success}) <= 1

\* C17: of two create_file tasks of one event loop for the same path, absent
\* at first, at most one returns success.
C17_AtMostOneCreates ==
    Cardinality({t \in DOMAIN tasks :
                    tasks[t].result.returned /\ tasks[t].result.success}) <= 1

====
